---- MODULE Spec2Model ----
(***************************************************************************)
(* Model of src/bot.py: the dump bot.  A private message is dispatched to  *)
(* the first registered handler whose filter accepts it; the handler runs  *)
(* as a coroutine that suspends at every await (store round trip, copy,    *)
(* sleep).  The users collection of the backing store and the chat the     *)
(* user sees are the durable state around the process: the collection      *)
(* starts as any collection set_dump_channel can have left behind.         *)
(*                                                                         *)
(* Spec          the bot as it runs: updates go through the dispatcher.    *)
(*               One unit of work occupies the slot at a time; no handler  *)
(*               reachable through the dispatcher writes the collection,   *)
(*               so units of work do not influence one another.            *)
(* SpecDirect    Spec, and save_dump_channel called on its own filter.     *)
(* SpecRegistry  the two Database methods called directly.                 *)
(* Spec...Fresh  the same from the empty collection of a new deployment.   *)
(* SpecConc      two units of work interleaved at their awaits, on a       *)
(*               narrowed set of inputs; SpecConcLive adds the fairness    *)
(*               of the event loop resuming every suspended coroutine.     *)
(*                                                                         *)
(* A reply is recorded when reply_text is called; replies are not made to  *)
(* fail.  Every store call and every copy may fail.                        *)
(***************************************************************************)
EXTENDS Integers, Sequences, FiniteSets, TLC

VARIABLES
    users,   \* db.users: the set of documents [_id, dump_channel]
    task,    \* one record per unit of work being handled (a slot of the event loop)
    chat,    \* per user: the latest bot message in the private chat ("" if none)
    regop    \* the last direct call of a Database method and what it returned

vars == <<users, task, chat, regop>>

----------------------------------------------------------------------------
(* Bounds and small sets the inputs are drawn from *)

MaxWait == 2
MaxChannel == 1

Users == {1, 2}
Channels == (0 - MaxChannel)..MaxChannel
Waits == 1..MaxWait
Slots == {1}

None == <<>>
Some(x) == <<x>>

----------------------------------------------------------------------------
(* Strings, as sequences of characters *)

Digits == <<"0", "1", "2", "3", "4", "5", "6", "7", "8", "9">>

SLASH_START == <<"/", "s", "t", "a", "r", "t">>
SLASH_SETTINGS == <<"/", "s", "e", "t", "t", "i", "n", "g", "s">>
SLASH_HEALTH == <<"/", "h", "e", "a", "l", "t", "h">>
SLASH_START_ARG == <<"/", "s", "t", "a", "r", "t", " ", "x">>
SLASH_STARTED == <<"/", "s", "t", "a", "r", "t", "e", "d">>
PLAIN == <<"a", "b", "c">>
MINUS_ONE == <<"-", "1">>
ZERO == <<"0">>
PADDED_ONE == <<" ", "1", " ">>

startswith(s, p) ==
    /\ Len(s) >= Len(p)
    /\ \A i \in 1..Len(p) : s[i] = p[i]

\* str.strip(): leading and trailing blanks removed
RECURSIVE lstrip(_)
lstrip(s) == IF s # <<>> /\ Head(s) = " " THEN lstrip(Tail(s)) ELSE s

RECURSIVE rstrip(_)
rstrip(s) ==
    IF s # <<>> /\ s[Len(s)] = " " THEN rstrip(SubSeq(s, 1, Len(s) - 1)) ELSE s

strip(s) == rstrip(lstrip(s))

IsDigit(c) == \E d \in 1..10 : Digits[d] = c
DigitVal(c) == (CHOOSE d \in 1..10 : Digits[d] = c) - 1

RECURSIVE Magnitude(_)
Magnitude(ds) ==
    IF ds = <<>> THEN 0
    ELSE 10 * Magnitude(SubSeq(ds, 1, Len(ds) - 1)) + DigitVal(ds[Len(ds)])

Unsigned(s) == IF s # <<>> /\ Head(s) \in {"-", "+"} THEN Tail(s) ELSE s

\* int(s): an optional sign and at least one digit; anything else is a ValueError
IntParses(s) ==
    /\ Unsigned(s) # <<>>
    /\ \A i \in 1..Len(Unsigned(s)) : IsDigit(Unsigned(s)[i])

IntValue(s) ==
    IF Head(s) = "-" THEN 0 - Magnitude(Unsigned(s)) ELSE Magnitude(Unsigned(s))

----------------------------------------------------------------------------
(* The texts the bot sends, as sequences of words (markup and emoji dropped) *)

MARKER == <<"Dump", "Channel", "ID">>

GREETING_TEXT ==
    <<"User", "Dump", "Bot", "Send", "me", "any", "text", "or", "file", "and",
      "I", "will", "dump", "it", "to", "your", "channel.", "Use", "/settings",
      "to", "configure", "your", "dump", "channel.">>
NOT_SET_TEXT ==
    <<"You", "have", "not", "set", "a", "dump", "channel.", "Use", "/settings",
      "to", "configure", "it.">>
FAILED_TEXT == <<"Failed", "to", "dump", "this", "message.">>
SETTINGS_TEXT == <<"Your", "Settings", "Dump", "Channel", "ID", ":", "{}">>
PROMPT_TEXT ==
    <<"Send", "your", "Dump", "Channel", "ID", "Example:", "-1001234567890",
      "Bot", "must", "be", "admin", "in", "that", "channel">>
SAVED_TEXT == <<"Dump", "channel", "saved", "for", "you:", "{}">>
INVALID_TEXT == <<"Invalid", "channel", "ID.", "Send", "numbers", "only.">>
HEALTH_OK_TEXT == <<"Bot", "is", "running!", "MongoDB", "connection", "OK!">>
HEALTH_FAIL_TEXT == <<"Something", "is", "wrong!", "{}">>

Text(kind) ==
    CASE kind = "greeting" -> GREETING_TEXT
      [] kind = "not_set" -> NOT_SET_TEXT
      [] kind = "failed" -> FAILED_TEXT
      [] kind = "settings" -> SETTINGS_TEXT
      [] kind = "prompt" -> PROMPT_TEXT
      [] kind = "saved" -> SAVED_TEXT
      [] kind = "invalid" -> INVALID_TEXT
      [] kind = "health_ok" -> HEALTH_OK_TEXT
      [] kind = "health_fail" -> HEALTH_FAIL_TEXT

\* needle in haystack
Contains(haystack, needle) ==
    \E i \in 0..(Len(haystack) - Len(needle)) :
        \A j \in 1..Len(needle) : haystack[i + j] = needle[j]

----------------------------------------------------------------------------
(* Database *)

Doc(u, c) == [_id |-> u, dump_channel |-> c]

\* every collection set_dump_channel can have left behind
Collections ==
    {{Doc(u, f[u][1]) : u \in {v \in Users : f[v] # None}} :
        f \in [Users -> {None} \cup {Some(c) : c \in Channels}]}

find_one(coll, u) ==
    IF \E d \in coll : d._id = u
    THEN Some(CHOOSE d \in coll : d._id = u)
    ELSE None

\* a get that answers 0 instead of None for a user without a document
get_dump_channel_defaulting(coll, u) ==
    LET user == find_one(coll, u)
    IN  IF user # None THEN Some(user[1].dump_channel) ELSE Some(0)

get_dump_channel(coll, u) ==
    LET user == find_one(coll, u)
    IN  IF user # None THEN Some(user[1].dump_channel) ELSE None

\* user["dump_channel"] raises KeyError: the document lacks the field
get_dump_channel_raises(coll, u) ==
    \E d \in coll : d._id = u /\ "dump_channel" \notin DOMAIN d

\* update_one(filter, {"$set": ...}, upsert=True)
update_one_upsert(coll, u, c) ==
    LET user == find_one(coll, u)
    IN  IF user # None
        THEN (coll \ {user[1]}) \cup {[user[1] EXCEPT !.dump_channel = c]}
        ELSE coll \cup {Doc(u, c)}

\* a set that replaces the whole collection by the user's document
set_dump_channel_replacing(coll, u, c) == {Doc(u, c)}

\* a set that inserts a document instead of upserting the user's one
set_dump_channel_inserting(coll, u, c) == coll \cup {Doc(u, c)}

set_dump_channel(coll, u, c) == update_one_upsert(coll, u, c)

\* Python truthiness of the value get_dump_channel returned
Truthy(dc) == dc # None /\ dc # Some(0)

----------------------------------------------------------------------------
(* Inbound updates: messages of private chats *)

FilteredMedia == {"document", "video", "audio", "photo", "animation", "sticker"}
CaptionedMedia == {"document", "video", "audio", "photo", "animation", "voice"}
Commands == {SLASH_START, SLASH_SETTINGS, SLASH_HEALTH}
TextBodies ==
    Commands \cup {SLASH_START_ARG, SLASH_STARTED, PLAIN, MINUS_ONE, ZERO, PADDED_ONE}
Captions == Commands \cup {<<>>}

\* text is the body of a text message, caption the caption of a media message
\* (<<>> when there is none); reply_to is the bot message replied to ("" if none)
Msg(u, media, text, caption, reply_to) ==
    [from_user |-> u, media |-> media, text |-> text, caption |-> caption,
     reply_to |-> reply_to]

NoMsg == Msg(0, "", <<>>, <<>>, "")

TextMessages(u, target) ==
    {Msg(u, "text", b, <<>>, r) : b \in TextBodies, r \in {"", target}}
MediaMessages(u) ==
    {Msg(u, k, <<>>, c, "") : k \in CaptionedMedia, c \in Captions}
        \cup {Msg(u, "sticker", <<>>, <<>>, "")}

\* filters.command(name): the text or caption is the prefix "/" and the name,
\* followed by a blank or by nothing
filter_command(m, cmd) ==
    LET text == IF m.text # <<>> THEN m.text ELSE m.caption
    IN  /\ startswith(text, cmd)
        /\ (Len(text) = Len(cmd) \/ text[Len(cmd) + 1] = " ")

filter_text(m) == m.text # <<>>
filter_reply(m) == m.reply_to # ""

filter_dump_handler(m) == filter_text(m) \/ m.media \in FilteredMedia
filter_start_cmd(m) == filter_command(m, SLASH_START)
filter_settings_cmd(m) == filter_command(m, SLASH_SETTINGS)
filter_save_dump_channel(m) == filter_reply(m) /\ filter_text(m)
filter_health_check(m) == filter_command(m, SLASH_HEALTH)

\* the message handlers in the order the decorators registered them
Handlers ==
    <<"dump_handler", "start_cmd", "settings_cmd", "save_dump_channel", "health_check">>

Accepts(h, m) ==
    CASE h = "dump_handler" -> filter_dump_handler(m)
      [] h = "start_cmd" -> filter_start_cmd(m)
      [] h = "settings_cmd" -> filter_settings_cmd(m)
      [] h = "save_dump_channel" -> filter_save_dump_channel(m)
      [] h = "health_check" -> filter_health_check(m)

\* all five are in one group: the first handler that accepts the message runs,
\* the others never see it
Dispatch(m) ==
    IF \E i \in 1..Len(Handlers) : Accepts(Handlers[i], m)
    THEN Handlers[CHOOSE i \in 1..Len(Handlers) :
            /\ Accepts(Handlers[i], m)
            /\ \A j \in 1..(i - 1) : ~Accepts(Handlers[j], m)]
    ELSE "none"

----------------------------------------------------------------------------
(* Units of work *)

\* what a handler did: a store call, a copy, a sleep, a reply, an HTTP response.
\* val holds the integers of the event, detail the error text shown to the user
Event(op, kind, val, detail) == [op |-> op, kind |-> kind, val |-> val, detail |-> detail]

Idle ==
    [pc |-> "idle", handler |-> "", msg |-> NoMsg, dump_channel |-> None,
     wait |-> 0, trace |-> <<>>, exc |-> ""]

Started(h, m) == [Idle EXCEPT !.pc = "start", !.handler = h, !.msg = m]

\* the handler awaits at label pc
At(tk, pc) == [tk EXCEPT !.pc = pc]
\* the handler did event e
Did(tk, e) == [tk EXCEPT !.trace = Append(@, e)]
\* the handler returned
Return(tk) == [tk EXCEPT !.pc = "done"]
\* exception e left the handler
Raise(tk, e) == [tk EXCEPT !.pc = "done", !.exc = e]

reply_text(tk, kind, val, detail) == Did(tk, Event("reply", kind, val, detail))

Replies(tk) == SelectSeq(tk.trace, LAMBDA e : e.op = "reply")

\* the chat of the sender after the handler's step: a reply it sent is the latest
Delivered(before, tk) ==
    LET u == tk.msg.from_user
        was == Len(Replies(before))
        now == Replies(tk)
    IN  IF u \in Users /\ Len(now) > was
        THEN [chat EXCEPT ![u] = now[Len(now)].kind]
        ELSE chat

----------------------------------------------------------------------------
(* What the platform and the store answer *)

STORE_ERROR == "ServerSelectionTimeoutError"

Outcome(kind, wait) == [kind |-> kind, wait |-> wait]

\* message.copy: done, FloodWait with e.value = w, or any other error
CopyOutcomes ==
    {Outcome("ok", 0), Outcome("RPCError", 0)} \cup {Outcome("FloodWait", w) : w \in Waits}

\* a copy that looks the destination up again instead of using the local
CopyEvent_rereading(tk, outcome) ==
    LET dc == get_dump_channel(users, tk.msg.from_user)
    IN  Event("copy", outcome.kind,
              IF outcome.kind = "FloodWait" THEN dc \o <<outcome.wait>> ELSE dc, "")

CopyEvent(tk, outcome) ==
    Event("copy", outcome.kind,
          IF outcome.kind = "FloodWait"
          THEN tk.dump_channel \o <<outcome.wait>>
          ELSE tk.dump_channel, "")

----------------------------------------------------------------------------
(* dump_handler *)

\* the part before the first await
dump_handler(tk) ==
    IF tk.msg.text # <<>> /\ startswith(tk.msg.text, <<"/">>)
    THEN Return(tk)
    ELSE At(tk, "get")

\* a lookup branch that answers text like media when nothing is bound
dump_handler_got_prompting_text(tk, dc) ==
    LET tk1 == [Did(tk, Event("get", "ok", dc, "")) EXCEPT !.dump_channel = dc]
    IN  IF ~Truthy(dc)
        THEN Return(reply_text(tk1, "not_set", <<>>, ""))
        ELSE At(tk1, "copy")

\* db.get_dump_channel returned dc, then the branch on it
dump_handler_got(tk, dc) ==
    LET tk1 == [Did(tk, Event("get", "ok", dc, "")) EXCEPT !.dump_channel = dc]
    IN  IF ~Truthy(dc)
        THEN IF tk.msg.text # <<>>
             THEN Return(tk1)
             ELSE Return(reply_text(tk1, "not_set", <<>>, ""))
        ELSE At(tk1, "copy")

\* db.get_dump_channel raised: it is called outside the try
dump_handler_get_failed(tk) ==
    Raise(Did(tk, Event("get", STORE_ERROR, <<>>, "")), STORE_ERROR)

\* a try block whose first except clause catches every error
dump_handler_copied_retrying_all(tk, outcome) ==
    LET tk1 == Did(tk, CopyEvent(tk, outcome))
    IN  IF outcome.kind = "ok"
        THEN Return(tk1)
        ELSE At([tk1 EXCEPT !.wait = outcome.wait], "sleep")

\* the copy of the try block and its two except clauses
dump_handler_copied(tk, outcome) ==
    LET tk1 == Did(tk, CopyEvent(tk, outcome))
    IN  CASE outcome.kind = "ok" -> Return(tk1)
          [] outcome.kind = "FloodWait" -> At([tk1 EXCEPT !.wait = outcome.wait], "sleep")
          [] OTHER -> Return(reply_text(tk1, "failed", <<>>, ""))

\* an except clause that retries without sleeping
dump_handler_slept_skipping(tk) == At(tk, "retry")

\* a wait that is armed again whenever it is over
dump_handler_slept_forever(tk) == tk

\* asyncio.sleep(e.value) is over
dump_handler_slept(tk) == At(Did(tk, Event("sleep", "", <<tk.wait>>, "")), "retry")

\* the copy inside the except FloodWait clause: no clause of the same try
\* statement catches what it raises
dump_handler_retried(tk, outcome) ==
    LET tk1 == Did(tk, CopyEvent(tk, outcome))
    IN  IF outcome.kind = "ok" THEN Return(tk1) ELSE Raise(tk1, outcome.kind)

----------------------------------------------------------------------------
(* The commands, the callback, the configuration reply, the probes *)

start_cmd(tk) == Return(reply_text(tk, "greeting", <<>>, ""))

settings_cmd(tk) == At(tk, "get")

settings_cmd_got(tk, dc) ==
    LET tk1 == [Did(tk, Event("get", "ok", dc, "")) EXCEPT !.dump_channel = dc]
    IN  IF Truthy(dc)
        THEN Return(reply_text(tk1, "settings", dc, ""))
        ELSE Return(reply_text(tk1, "settings", <<>>, "Not Set"))

settings_cmd_get_failed(tk) ==
    Raise(Did(tk, Event("get", STORE_ERROR, <<>>, "")), STORE_ERROR)

\* callback_query.message.delete(), then the forced-reply prompt
set_dump_callback(tk) ==
    Return(reply_text(Did(tk, Event("delete", "settings", <<>>, "")), "prompt", <<>>, ""))

save_dump_channel(tk) ==
    IF tk.msg.reply_to = "" THEN Return(tk)
    ELSE IF ~Contains(Text(tk.msg.reply_to), MARKER) THEN Return(tk)
    ELSE IF ~IntParses(strip(tk.msg.text))
         THEN Return(reply_text(tk, "invalid", <<>>, ""))
         ELSE At(tk, "set")

save_dump_channel_saved(tk) ==
    LET channel_id == IntValue(strip(tk.msg.text))
    IN  Return(reply_text(Did(tk, Event("set", "ok", <<channel_id>>, "")),
                          "saved", <<channel_id>>, ""))

\* only ValueError is caught
save_dump_channel_set_failed(tk) ==
    Raise(Did(tk, Event("set", STORE_ERROR, <<>>, "")), STORE_ERROR)

health_check(tk) == At(tk, "ping")

health_check_pinged(tk, ok) ==
    IF ok
    THEN Return(reply_text(Did(tk, Event("ping", "ok", <<>>, "")), "health_ok", <<>>, ""))
    ELSE Return(reply_text(Did(tk, Event("ping", STORE_ERROR, <<>>, "")),
                           "health_fail", <<>>, STORE_ERROR))

\* a probe that forgets status=500
http_health_always_200(tk, ok) ==
    IF ok
    THEN Return(Did(Did(tk, Event("ping", "ok", <<>>, "")),
                    Event("respond", "OK", <<200>>, "")))
    ELSE Return(Did(Did(tk, Event("ping", STORE_ERROR, <<>>, "")),
                    Event("respond", "MongoDB connection failed", <<200>>, "")))

http_health(tk, ok) ==
    IF ok
    THEN Return(Did(Did(tk, Event("ping", "ok", <<>>, "")),
                    Event("respond", "OK", <<200>>, "")))
    ELSE Return(Did(Did(tk, Event("ping", STORE_ERROR, <<>>, "")),
                    Event("respond", "MongoDB connection failed", <<500>>, "")))

\* the handler the dispatcher picked runs up to its first await
Run(tk) ==
    CASE tk.handler = "dump_handler" -> dump_handler(tk)
      [] tk.handler = "start_cmd" -> start_cmd(tk)
      [] tk.handler = "settings_cmd" -> settings_cmd(tk)
      [] tk.handler = "save_dump_channel" -> save_dump_channel(tk)
      [] tk.handler = "health_check" -> health_check(tk)

----------------------------------------------------------------------------
(* Direct calls of the Database methods.  regop records the call, the value *)
(* it returned, the collection before it, and per user the values of the     *)
(* latest set call and of the one before it.                                 *)

NoOp ==
    [op |-> "", user |-> 0, val |-> None, before |-> {},
     last |-> [u \in Users |-> None], prev |-> [u \in Users |-> None]]

RegSet(u, c) ==
    /\ users' = set_dump_channel(users, u, c)
    /\ regop' = [op |-> "set", user |-> u, val |-> Some(c), before |-> users,
                 last |-> [regop.last EXCEPT ![u] = Some(c)],
                 prev |-> [regop.prev EXCEPT ![u] = regop.last[u]]]
    /\ UNCHANGED <<task, chat>>

RegGet(u) ==
    /\ regop' = [op |-> "get", user |-> u, val |-> get_dump_channel(users, u),
                 before |-> users, last |-> regop.last, prev |-> regop.prev]
    /\ UNCHANGED <<users, task, chat>>

NextRegistry ==
    \E u \in Users :
        \/ \E c \in Channels : RegSet(u, c)
        \/ RegGet(u)

----------------------------------------------------------------------------
(* The state machine *)

Init ==
    /\ users \in Collections
    /\ task = [t \in Slots |-> Idle]
    /\ chat = [u \in Users |-> ""]
    /\ regop = NoOp

Step(t, tk) ==
    /\ task' = [task EXCEPT ![t] = tk]
    /\ chat' = Delivered(task[t], tk)
    /\ UNCHANGED <<users, regop>>

\* a private message arrives and the dispatcher hands it to a handler
OnMessage(t) ==
    /\ task[t].pc = "idle"
    /\ \E u \in Users : \E m \in TextMessages(u, chat[u]) \cup MediaMessages(u) :
        /\ Dispatch(m) # "none"
        /\ Step(t, Run(Started(Dispatch(m), m)))

DumpGet(t) ==
    /\ task[t].pc = "get"
    /\ task[t].handler = "dump_handler"
    /\ \/ Step(t, dump_handler_got(task[t], get_dump_channel(users, task[t].msg.from_user)))
       \/ Step(t, dump_handler_get_failed(task[t]))

DumpCopy(t) ==
    /\ task[t].pc = "copy"
    /\ \E outcome \in CopyOutcomes : Step(t, dump_handler_copied(task[t], outcome))

DumpSleep(t) ==
    /\ task[t].pc = "sleep"
    /\ Step(t, dump_handler_slept(task[t]))

DumpRetry(t) ==
    /\ task[t].pc = "retry"
    /\ \E outcome \in CopyOutcomes : Step(t, dump_handler_retried(task[t], outcome))

SettingsGet(t) ==
    /\ task[t].pc = "get"
    /\ task[t].handler = "settings_cmd"
    /\ \/ Step(t, settings_cmd_got(task[t], get_dump_channel(users, task[t].msg.from_user)))
       \/ Step(t, settings_cmd_get_failed(task[t]))

HealthPing(t) ==
    /\ task[t].pc = "ping"
    /\ task[t].handler = "health_check"
    /\ \E ok \in BOOLEAN : Step(t, health_check_pinged(task[t], ok))

\* the user presses the button of a /settings reply
OnCallback(t) ==
    /\ task[t].pc = "idle"
    /\ \E u \in Users :
        /\ chat[u] = "settings"
        /\ LET tk == set_dump_callback(
                        Started("set_dump_callback", Msg(u, "callback_query", <<>>, <<>>, "settings")))
           IN  Step(t, tk)

\* GET /health
OnRequest(t) ==
    /\ task[t].pc = "idle"
    /\ Step(t, At(Started("http_health", NoMsg), "ping"))

HttpPing(t) ==
    /\ task[t].pc = "ping"
    /\ task[t].handler = "http_health"
    /\ \E ok \in BOOLEAN : Step(t, http_health(task[t], ok))

\* the unit of work is over; its slot is free again
Retire(t) ==
    /\ task[t].pc = "done"
    /\ task' = [task EXCEPT ![t] = Idle]
    /\ UNCHANGED <<users, chat, regop>>

Next ==
    \E t \in Slots :
        \/ OnMessage(t)
        \/ DumpGet(t)
        \/ DumpCopy(t)
        \/ DumpSleep(t)
        \/ DumpRetry(t)
        \/ SettingsGet(t)
        \/ HealthPing(t)
        \/ OnCallback(t)
        \/ OnRequest(t)
        \/ HttpPing(t)
        \/ Retire(t)

Spec == Init /\ [][Next]_vars

\* save_dump_channel called on a message its own filter accepts, as a test of
\* the handler alone calls it: under Spec the dispatcher never picks it
OnReply(t) ==
    /\ task[t].pc = "idle"
    /\ \E u \in Users : \E m \in TextMessages(u, chat[u]) :
        /\ filter_save_dump_channel(m)
        /\ Step(t, save_dump_channel(Started("save_dump_channel", m)))

SaveSet(t) ==
    /\ task[t].pc = "set"
    /\ \/ /\ task' = [task EXCEPT ![t] = save_dump_channel_saved(task[t])]
          /\ users' = set_dump_channel(users, task[t].msg.from_user,
                                       IntValue(strip(task[t].msg.text)))
          /\ chat' = Delivered(task[t], task'[t])
          /\ UNCHANGED regop
       \/ Step(t, save_dump_channel_set_failed(task[t]))

NextDirect ==
    \/ Next
    \/ \E t \in Slots : OnReply(t) \/ SaveSet(t)

SpecDirect == Init /\ [][NextDirect]_vars

\* the Database methods called directly, one call at a time
SpecRegistry == Init /\ [][NextRegistry]_vars

\* a store nobody has configured yet
InitFresh ==
    /\ users = {}
    /\ task = [t \in Slots |-> Idle]
    /\ chat = [u \in Users |-> ""]
    /\ regop = NoOp

SpecRegistryFresh == InitFresh /\ [][NextRegistry]_vars

\* SpecDirect from the empty collection: every binding comes from a
\* confirmed submission
SpecDirectFresh == InitFresh /\ [][NextDirect]_vars

----------------------------------------------------------------------------
(* Two units of work at a time.  The event loop runs the handlers of several *)
(* updates interleaved at their awaits.  To keep the interleavings countable *)
(* the inputs are narrowed: both users are bound and have the prompt in      *)
(* their chat; they send photos and plain texts, which the dispatcher hands  *)
(* to dump_handler, and integer replies to the prompt, on which              *)
(* save_dump_channel is called as in SpecDirect.                             *)

Workers == {1, 2}

InitConc ==
    /\ users = {Doc(u, MaxChannel) : u \in Users}
    /\ task = [t \in Workers |-> Idle]
    /\ chat = [u \in Users |-> "prompt"]
    /\ regop = NoOp

ConcContent(u) == {Msg(u, "photo", <<>>, <<>>, ""), Msg(u, "text", PLAIN, <<>>, "")}

OnContent(t) ==
    /\ task[t].pc = "idle"
    /\ \E u \in Users : \E m \in ConcContent(u) :
        /\ Dispatch(m) # "none"
        /\ Step(t, Run(Started(Dispatch(m), m)))

OnSubmission(t) ==
    /\ task[t].pc = "idle"
    /\ \E u \in Users :
        /\ chat[u] = "prompt"
        /\ Step(t, save_dump_channel(
                       Started("save_dump_channel", Msg(u, "text", MINUS_ONE, <<>>, chat[u]))))

NextConc ==
    \E t \in Workers :
        \/ OnContent(t)
        \/ OnSubmission(t)
        \/ DumpGet(t)
        \/ DumpCopy(t)
        \/ DumpSleep(t)
        \/ DumpRetry(t)
        \/ SaveSet(t)
        \/ Retire(t)

SpecConc == InitConc /\ [][NextConc]_vars

\* every awaited call returns or fails, and the loop resumes the coroutine
Resumes ==
    \A t \in Workers :
        /\ WF_vars(DumpGet(t))
        /\ WF_vars(DumpCopy(t))
        /\ WF_vars(DumpSleep(t))
        /\ WF_vars(DumpRetry(t))
        /\ WF_vars(SaveSet(t))

SpecConcLive == SpecConc /\ Resumes

----------------------------------------------------------------------------
(* Reading a unit of work *)

Copies(tk) == SelectSeq(tk.trace, LAMBDA e : e.op = "copy")
Sleeps(tk) == SelectSeq(tk.trace, LAMBDA e : e.op = "sleep")
\* the copies and sleeps in the order they happened
Relay(tk) == SelectSeq(tk.trace, LAMBDA e : e.op \in {"copy", "sleep"})
Ops(es) == [i \in 1..Len(es) |-> es[i].op]

\* the text or the caption begins with one of the three commands
IsCommand(m) == \E cmd \in Commands : filter_command(m, cmd)
\* text or one of the relayed media types, not a command
IsContent(m) == (m.media = "text" \/ m.media \in FilteredMedia) /\ ~IsCommand(m)
\* a text reply to the forced-reply prompt
IsSubmission(m) == m.media = "text" /\ m.reply_to = "prompt"

\* the registry lookup of the handler answered "absent"
LookedUpAbsent(tk) == \E i \in 1..Len(tk.trace) : tk.trace[i] = Event("get", "ok", None, "")
\* a get or set of the handler failed in the store
StoreFailed(tk) ==
    \E i \in 1..Len(tk.trace) :
        tk.trace[i].op \in {"get", "set"} /\ tk.trace[i].kind = STORE_ERROR

FirstCopyFloodWait(tk) == Copies(tk) # <<>> /\ Copies(tk)[1].kind = "FloodWait"
FirstCopyFailedOtherwise(tk) ==
    Copies(tk) # <<>> /\ Copies(tk)[1].kind \notin {"ok", "FloodWait"}

----------------------------------------------------------------------------
(* Claims *)

\* C1 (as claimed): when the first copy fails with FloodWait and the retry after
\* the wait fails too, exactly one failure reply is sent and nothing escapes
\* the handler.
C1_RetryFailureReported ==
    \A t \in Slots :
        LET tk == task[t]
        IN  (tk.pc = "done" /\ FirstCopyFloodWait(tk) /\ Len(Copies(tk)) = 2
                /\ Copies(tk)[2].kind # "ok")
            => (tk.exc = "" /\ Replies(tk) = <<Event("reply", "failed", <<>>, "")>>)

\* C2: after a first copy that fails with FloodWait carrying W the handler
\* sleeps W once and then copies once more, in that order; no message gets a
\* third copy or a second sleep, and a second copy only ever follows the sleep.
C2_OneWaitThenOneRetry ==
    \A t \in Slots :
        LET tk == task[t]
            W == Copies(tk)[1].val[2]
        IN  /\ Len(Copies(tk)) <= 2
            /\ Len(Sleeps(tk)) <= 1
            /\ Len(Copies(tk)) = 2 => Ops(Relay(tk)) = <<"copy", "sleep", "copy">>
            /\ FirstCopyFloodWait(tk) =>
                /\ tk.pc \in {"sleep", "retry", "done"}
                /\ tk.pc = "sleep" => Ops(Relay(tk)) = <<"copy">>
                /\ tk.pc = "retry" => Ops(Relay(tk)) = <<"copy", "sleep">>
                /\ tk.pc = "done" => Ops(Relay(tk)) = <<"copy", "sleep", "copy">>
                /\ Sleeps(tk) # <<>> => Sleeps(tk)[1].val = <<W>>
                /\ Len(Copies(tk)) = 2 => Copies(tk)[2].val[1] = Copies(tk)[1].val[1]

C2_Witness ==
    \E t \in Slots :
        /\ task[t].pc = "done"
        /\ FirstCopyFloodWait(task[t])
        /\ Copies(task[t])[1].val[2] = MaxWait
        /\ Len(Copies(task[t])) = 2
        /\ Copies(task[t])[2].kind = "FloodWait"

\* C3 (as claimed): a message that begins with a command, in its text or in
\* the caption of its media, is never copied.
C3_CommandNeverRelayed ==
    \A t \in Slots : IsCommand(task[t].msg) => Copies(task[t]) = <<>>

\* C4 (as claimed): a text message /start, /settings or /health is handled by
\* its command handler, which sends exactly one reply.
C4_CommandHandledByItsHandler ==
    \A t \in Slots :
        LET tk == task[t]
        IN  (tk.pc = "done" /\ tk.msg.media = "text" /\ tk.msg.text \in Commands
                /\ tk.exc = "")
            => /\ Len(Replies(tk)) = 1
               /\ tk.msg.text = SLASH_START =>
                    tk.handler = "start_cmd" /\ Replies(tk)[1].kind = "greeting"
               /\ tk.msg.text = SLASH_SETTINGS =>
                    tk.handler = "settings_cmd" /\ Replies(tk)[1].kind = "settings"
               /\ tk.msg.text = SLASH_HEALTH =>
                    /\ tk.handler = "health_check"
                    /\ Replies(tk)[1].kind \in {"health_ok", "health_fail"}

\* C5 (as claimed): an integer n sent as a text reply to the prompt ends with
\* get(u) = n and exactly one confirmation reply.
C5_IntegerSubmissionSaved ==
    \A t \in Slots :
        LET tk == task[t]
            body == strip(tk.msg.text)
        IN  (tk.pc = "done" /\ IsSubmission(tk.msg) /\ IntParses(body) /\ tk.exc = "")
            => /\ get_dump_channel(users, tk.msg.from_user) = Some(IntValue(body))
               /\ Replies(tk) = <<Event("reply", "saved", <<IntValue(body)>>, "")>>

\* C6 (as claimed): a text that is no integer, sent as a reply to the prompt,
\* is answered with exactly one invalid-input reply.
C6_InvalidSubmissionRejected ==
    \A t \in Slots :
        LET tk == task[t]
        IN  (tk.pc = "done" /\ IsSubmission(tk.msg) /\ ~IntParses(strip(tk.msg.text))
                /\ tk.exc = "")
            => Replies(tk) = <<Event("reply", "invalid", <<>>, "")>>

\* C7: when the registry answers that the sender of a content message has no
\* binding, the handler is over at once without any copy: a text message gets
\* no reply, a document, video, audio, photo, animation or sticker gets exactly
\* one reply, the notice that points to /settings.
C7_UnboundTextSilentMediaPrompted ==
    \A t \in Slots :
        LET tk == task[t]
        IN  (IsContent(tk.msg) /\ LookedUpAbsent(tk))
            => /\ tk.pc = "done"
               /\ tk.exc = ""
               /\ Copies(tk) = <<>>
               /\ tk.msg.media = "text" => Replies(tk) = <<>>
               /\ tk.msg.media \in FilteredMedia =>
                    /\ Replies(tk) = <<Event("reply", "not_set", <<>>, "")>>
                    /\ Contains(Text(Replies(tk)[1].kind), <<"/settings">>)

C7_Witness ==
    \E t \in Slots :
        /\ IsContent(task[t].msg)
        /\ LookedUpAbsent(task[t])
        /\ task[t].msg.media = "sticker"
        /\ Len(Replies(task[t])) = 1

\* C8 (as claimed): a store failure during the get or set of a message handler
\* is caught in the handler and answered with a failure reply.
C8_StoreFailureReported ==
    \A t \in Slots :
        LET tk == task[t]
        IN  (tk.pc = "done" /\ StoreFailed(tk))
            => (tk.exc = "" /\ Len(Replies(tk)) = 1 /\ Replies(tk)[1].kind = "failed")

\* C9: a first copy that fails with anything but FloodWait ends the handling:
\* no sleep, no second copy, nothing escapes, and the one reply is the fixed
\* failure notice, without the error in it.
C9_OtherFailureTerminal ==
    \A t \in Slots :
        LET tk == task[t]
        IN  FirstCopyFailedOtherwise(tk)
            => /\ tk.pc = "done"
               /\ tk.exc = ""
               /\ Len(Copies(tk)) = 1
               /\ Sleeps(tk) = <<>>
               /\ Replies(tk) = <<Event("reply", "failed", <<>>, "")>>
               /\ Text(Replies(tk)[1].kind) = FAILED_TEXT

C9_Witness ==
    \E t \in Slots :
        /\ FirstCopyFailedOtherwise(task[t])
        /\ task[t].msg.media = "text"
        /\ Len(Replies(task[t])) = 1

\* C10: get returns the value of the latest set for the user, a set of the
\* value already bound changes nothing, and no user has two documents.
C10_LastWriteWins ==
    /\ \A u \in Users :
        /\ regop.last[u] # None => get_dump_channel(users, u) = regop.last[u]
        /\ Cardinality({d \in users : d._id = u}) <= 1
    /\ (regop.op = "get" /\ regop.last[regop.user] # None)
        => regop.val = regop.last[regop.user]
    /\ (regop.op = "set" /\ get_dump_channel(regop.before, regop.user) = regop.val)
        => users = regop.before

\* set(u, A); set(u, B) with A # B, then get(u)
C10_Witness ==
    /\ regop.op = "get"
    /\ regop.prev[regop.user] # None
    /\ regop.prev[regop.user] # regop.last[regop.user]
    /\ regop.val = regop.last[regop.user]
    /\ Cardinality(users) = Cardinality(Users)


\* C11: starting from an empty collection, get answers None, without raising,
\* for every user no set was made for, and every document carries the
\* dump_channel field.
C11_NeverSetIsAbsent ==
    /\ \A d \in users : "dump_channel" \in DOMAIN d
    /\ \A u \in Users :
        /\ ~get_dump_channel_raises(users, u)
        /\ regop.last[u] = None => get_dump_channel(users, u) = None
    /\ (regop.op = "get" /\ regop.last[regop.user] = None) => regop.val = None

\* a get for a user never set, after a set for another user
C11_Witness ==
    /\ regop.op = "get"
    /\ regop.last[regop.user] = None
    /\ regop.val = None
    /\ users # {}

C13_SubmissionOnlyConfigured ==
    \A t \in DOMAIN task :
        LET tk == task[t]
        IN  (IsSubmission(tk.msg) /\ tk.pc # "idle")
            => /\ tk.handler = "save_dump_channel"
               /\ Copies(tk) = <<>>
               /\ (tk.pc = "done" /\ tk.exc = "") => Replies(tk) # <<>>

\* the handler's set call returned: the step that may write the collection
SavedStep(t) ==
    /\ task[t].handler = "save_dump_channel"
    /\ task[t].pc = "set"
    /\ Contains(Text(task[t].msg.reply_to), MARKER)
    /\ IntParses(strip(task[t].msg.text))
    /\ task'[t].pc = "done"
    /\ task'[t].exc = ""
    /\ Replies(task'[t]) = <<Event("reply", "saved", <<IntValue(strip(task[t].msg.text))>>, "")>>

\* C14: the collection changes only in the step in which save_dump_channel's
\* set of an integer submission returns, and then only the sender's binding
\* changes, to the integer sent; no step removes a binding.
C14_OnlySubmissionWrites ==
    [][/\ users' # users =>
            \E t \in DOMAIN task :
                /\ SavedStep(t)
                /\ get_dump_channel(users', task[t].msg.from_user)
                        = Some(IntValue(strip(task[t].msg.text)))
                /\ \A v \in Users \ {task[t].msg.from_user} :
                        get_dump_channel(users', v) = get_dump_channel(users, v)
       /\ \A v \in Users :
            get_dump_channel(users, v) # None => get_dump_channel(users', v) # None
       /\ \A v \in Users : Cardinality({d \in users' : d._id = v}) <= 1]_vars

\* a submission overwrote the sender's binding while the other user is bound
C14_Witness ==
    \E t \in DOMAIN task :
        LET tk == task[t]
            u == tk.msg.from_user
        IN  /\ tk.handler = "save_dump_channel"
            /\ tk.pc = "done"
            /\ Replies(tk) # <<>>
            /\ Replies(tk)[1].kind = "saved"
            /\ get_dump_channel(users, u) = Some(Replies(tk)[1].val[1])
            /\ \E v \in Users \ {u} :
                /\ get_dump_channel(users, v) # None
                /\ get_dump_channel(users, v) # get_dump_channel(users, u)

\* C16 (as claimed): a sender whose submission was confirmed has a
\* destination: the content handler, having read the binding, never answers
\* with the not-set notice and does not end without a copy attempt.
C16_ConfirmedSenderHasDestination ==
    \A t \in DOMAIN task :
        LET tk == task[t]
        IN  (/\ tk.handler = "dump_handler"
             /\ IsContent(tk.msg)
             /\ \E i \in 1..Len(tk.trace) :
                    /\ tk.trace[i].op = "get"
                    /\ tk.trace[i].kind = "ok"
                    /\ tk.trace[i].val # None)
            => /\ \A i \in 1..Len(Replies(tk)) : Replies(tk)[i].kind # "not_set"
               /\ tk.pc = "done" => Copies(tk) # <<>>

\* C18 (as claimed): a text reply to a bot message other than the prompt is
\* never treated as a configuration submission: save_dump_channel returns
\* without a set and without a reply.
C18_OnlyPromptIsRecognized ==
    \A t \in DOMAIN task :
        LET tk == task[t]
        IN  (tk.handler = "save_dump_channel" /\ tk.msg.reply_to # "prompt")
            => (tk.pc = "done" /\ tk.trace = <<>>)


\* the value the handler's registry lookup returned, as a one-element set
Looked(tk) == {tk.trace[i].val : i \in {j \in 1..Len(tk.trace) :
                                          tk.trace[j].op = "get" /\ tk.trace[j].kind = "ok"}}
\* the channels the copies of the handler were addressed to
Targets(tk) == {<<Copies(tk)[i].val[1]>> : i \in 1..Len(Copies(tk))}

\* the step in which worker t reads the registry reads the sender's binding
ReadsOwnBinding(t) ==
    (Looked(task[t]) = {} /\ Looked(task'[t]) # {})
        => Looked(task'[t]) = {get_dump_channel(users, task[t].msg.from_user)}

\* C15: with two messages handled at a time, of one user or of two, the
\* handler reads the sender's own binding, every copy it makes is addressed to
\* the channel it read, and the retry after the wait is addressed to the
\* channel of the first copy even when the binding was overwritten meanwhile.
C15_CopiesTargetChannelRead ==
    [][\A t \in DOMAIN task :
          /\ ReadsOwnBinding(t)
          /\ Targets(task'[t]) \subseteq Looked(task'[t])
          /\ Cardinality(Targets(task'[t])) <= 1]_vars

\* a retry went to the channel read before the wait although the sender's
\* binding is by now another one
C15_Witness ==
    \E t \in DOMAIN task :
        /\ Len(Copies(task[t])) = 2
        /\ Len(Sleeps(task[t])) = 1
        /\ Targets(task[t]) = {task[t].dump_channel}
        /\ get_dump_channel(users, task[t].msg.from_user) # task[t].dump_channel

Busy(t) == task[t].pc \notin {"idle", "done"}

\* C17: every handling that began completes, whatever the other worker does,
\* and a completed handling makes no further copy or reply: its record only
\* ever leaves the worker unchanged.
C17_CompletesAndStops ==
    /\ \A t \in Workers : Busy(t) ~> ~Busy(t)
    /\ [][\A t \in DOMAIN task :
              task[t].pc = "done" => task'[t] \in {task[t], Idle}]_vars

\* a handling completed after its retry while the other worker is in the
\* middle of a relay
C17_Witness ==
    \E t \in DOMAIN task : \E s \in DOMAIN task \ {t} :
        /\ task[t].pc = "done"
        /\ Ops(Relay(task[t])) = <<"copy", "sleep", "copy">>
        /\ task[s].pc \in {"copy", "sleep", "retry"}

====
